---- MODULE Spec2Model ----
(***************************************************************************)
(* MonacoDiffComponent (ui/src/components/blocks/MonacoDiffComponent.js):  *)
(* a React component wrapping a diff editor.  onChange debounces a         *)
(* "triggerSuggest" request behind a one-shot timer and forwards the new   *)
(* text; editorDidMount subscribes a decoration-change handler that        *)
(* reports formatted lint markers and stores the editor handle with        *)
(* setState.                                                               *)
(***************************************************************************)
EXTENDS Integers, Sequences, FiniteSets, TLC

\* ---- bounds of the exploration ----
MaxChanges == 2
MaxMounts == 1
MaxDecorations == 2
MaxMarkers == 2
MaxTime == 400
TimeStep == 100

\* ---- program constants ----
debounceWait == 300

\* getMonacoTriggerCharacters() lives in helpers/utils, outside src/; the
\* set used here is the one the specification names.
triggerCharacters == {"\"", ":"}

NoEditor == "null"
\* the component is handed the one diff editor it renders
Editors == {"ed1"}

\* getModel() === null is "none"; otherwise the kind is getModeId().
ModelKinds == {"none", "json", "yaml"}

Texts == {":", "\"", "x"}
Values == {"{}", "{\"a\":"}

ChangeLists ==
  { <<>> } \cup { <<[text |-> a]>> : a \in Texts }
           \cup { <<[text |-> "x"], [text |-> ":"]>>,
                  <<[text |-> ":"], [text |-> "x"]>> }

MarkerSet ==
  { [startLineNumber |-> 3, startColumn |-> 5, endColumn |-> 9,
     message |-> "bad token"],
    [startLineNumber |-> 12, startColumn |-> 1, endColumn |-> 4,
     message |-> "Expected comma"] }

RECURSIVE SeqsUpTo(_, _)
SeqsUpTo(S, n) ==
  IF n = 0 THEN { <<>> }
  ELSE LET shorter == SeqsUpTo(S, n - 1)
       IN shorter \cup { Append(s, x) : s \in shorter, x \in S }

MarkerSeqs == SeqsUpTo(MarkerSet, MaxMarkers)

VARIABLES
  modifiedEditor,   \* this.state.modifiedEditor
  timer,            \* this.timer: 0 is null, otherwise the id setTimeout returned
  timers,           \* the runtime's timers, indexed by id
  now,              \* the clock the timers run against
  subscribed,       \* editors carrying the onDidChangeModelDecorations handler
  editorModel,      \* per editor: what getModel() yields
  nMounts,          \* editorDidMount calls so far
  nChanges,         \* onChange calls so far
  lastChange,       \* arguments of the latest onChange call
  valueCalls,       \* onValueChange: number of calls and latest argument
  nDecorations,     \* decoration-change events so far
  lastDecoration,   \* the latest decoration-change event and its outcome
  nLintCalls,       \* onLintError calls so far
  lastLint          \* argument of the latest onLintError call

vars == <<modifiedEditor, timer, timers, now, subscribed,
          editorModel, nMounts, nChanges, lastChange, valueCalls,
          nDecorations, lastDecoration, nLintCalls, lastLint>>

NoChange == [value |-> "", changes |-> <<>>, previous |-> ""]
NoCalls == [n |-> 0, last |-> ""]
NoDecoration == [emitter |-> NoEditor, model |-> "none", handle |-> NoEditor,
                 markers |-> <<>>, outcome |-> "none"]

\* constructor: this.timer = null, state.modifiedEditor = null
Init ==
  /\ modifiedEditor = NoEditor
  /\ timer = 0
  /\ timers = <<>>
  /\ now = 0
  /\ subscribed = {}
  /\ editorModel = [ed \in Editors |-> "json"]
  /\ nMounts = 0
  /\ nChanges = 0
  /\ lastChange = NoChange
  /\ valueCalls = NoCalls
  /\ nDecorations = 0
  /\ lastDecoration = NoDecoration
  /\ nLintCalls = 0
  /\ lastLint = <<>>

\* ---- timers ----
IsPending(ts, id) == id \in 1..Len(ts) /\ ts[id].status = "pending"

PendingIds(ts) == { i \in 1..Len(ts) : ts[i].status = "pending" }

clearTimeout_Noop(ts, id) == ts

\* clearTimeout(this.timer): cancels a pending timer, otherwise a no-op
clearTimeout(ts, id) ==
  IF IsPending(ts, id) THEN [ts EXCEPT ![id].status = "cancelled"] ELSE ts

\* setTimeout(() => modifiedEditor.trigger(...), wait): the closure holds the
\* modifiedEditor read from this.state when onChange started
setTimeout(ts, ed, t, wait) ==
  Append(ts, [at |-> t, deadline |-> t + wait, editor |-> ed,
              status |-> "pending", fires |-> 0, firedAt |-> 0,
              outcome |-> "none", target |-> NoEditor,
              stateAtFire |-> NoEditor])

Schedule_NoClear(ts, tm, ed, t) == setTimeout(ts, ed, t, debounceWait)

\* the body of the trigger branch of onChange
Schedule(ts, tm, ed, t) ==
  setTimeout(clearTimeout(ts, tm), ed, t, debounceWait)

TimerCallback_Repeats(tr, cur, t) ==
  [tr EXCEPT !.deadline = t + debounceWait,
             !.fires = tr.fires + 1,
             !.firedAt = t,
             !.stateAtFire = cur,
             !.target = tr.editor,
             !.outcome = IF tr.editor = NoEditor THEN "TypeError"
                         ELSE "triggered"]

\* a one-shot timer runs its callback: modifiedEditor.trigger(...) on the
\* captured handle; a null handle makes the call throw a TypeError
TimerCallback(tr, cur, t) ==
  [tr EXCEPT !.status = "fired",
             !.fires = tr.fires + 1,
             !.firedAt = t,
             !.stateAtFire = cur,
             !.target = tr.editor,
             !.outcome = IF tr.editor = NoEditor THEN "TypeError"
                         ELSE "triggered"]

\* ---- onChange ----
Qualifies_AnyInsertion(changes) ==
  \E i \in 1..Len(changes) : changes[i].text \in triggerCharacters

\* e.changes.length > 0 && triggerCharacters.includes(e.changes[0].text)
Qualifies(changes) ==
  /\ Len(changes) > 0
  /\ changes[1].text \in triggerCharacters

ForwardValue_Dedup(calls, newValue) ==
  IF calls.n > 0 /\ calls.last = newValue THEN calls
  ELSE [n |-> calls.n + 1, last |-> newValue]

\* this.onValueChange(newValue)
ForwardValue(calls, newValue) == [n |-> calls.n + 1, last |-> newValue]

onChange(newValue, changes) ==
  /\ nChanges < MaxChanges
  /\ nChanges' = nChanges + 1
  /\ lastChange' = [value |-> newValue, changes |-> changes,
                    previous |-> lastChange.value]
  /\ IF Qualifies(changes)
     THEN /\ timers' = Schedule(timers, timer, modifiedEditor, now)
          /\ timer' = Len(timers')
     ELSE UNCHANGED <<timers, timer>>
  /\ valueCalls' = ForwardValue(valueCalls, newValue)
  /\ UNCHANGED <<modifiedEditor, now, subscribed, editorModel,
                 nMounts, nDecorations, lastDecoration, nLintCalls, lastLint>>

\* ---- the timer runtime ----
Fire ==
  \E id \in PendingIds(timers) :
    /\ now >= timers[id].deadline
    /\ timers' = [timers EXCEPT ![id] = TimerCallback(@, modifiedEditor, now)]
    /\ UNCHANGED <<modifiedEditor, timer, now, subscribed,
                   editorModel, nMounts, nChanges, lastChange, valueCalls,
                   nDecorations, lastDecoration, nLintCalls, lastLint>>

\* pending timers whose delay has not elapsed yet
NotDue == { i \in PendingIds(timers) : timers[i].deadline > now }

\* the moments the clock may move to next: one step on, or on to the moment
\* a pending timer becomes due
Delays(all) ==
  (IF all THEN {TimeStep} ELSE {})
    \cup { timers[i].deadline - now : i \in NotDue }

\* no timer can be due later than this
Horizon == MaxTime + TimeStep + MaxChanges * debounceWait

\* time passes.  A due timer need not have run yet: setTimeout only promises
\* "not before", so the clock may move on while a due timer is still pending.
\* Past MaxTime the clock only moves on to the next moment a timer is due.
Advance ==
  \E d \in Delays(now < MaxTime) :
    /\ now + d <= Horizon
    /\ now' = now + d
    /\ UNCHANGED <<modifiedEditor, timer, timers, subscribed,
                   editorModel, nMounts, nChanges, lastChange, valueCalls,
                   nDecorations, lastDecoration, nLintCalls, lastLint>>

\* ---- editorDidMount ----
FormatMarker_SwappedColumns(m) ==
  "Lint error on line " \o ToString(m.startLineNumber) \o " columns "
    \o ToString(m.endColumn) \o "-" \o ToString(m.startColumn) \o ": "
    \o m.message

\* the template literal of the marker message
FormatMarker(m) ==
  "Lint error on line " \o ToString(m.startLineNumber) \o " columns "
    \o ToString(m.startColumn) \o "-" \o ToString(m.endColumn) \o ": "
    \o m.message

\* markers.map(marker => `...`)
FormatMarkers(ms) == [i \in 1..Len(ms) |-> FormatMarker(ms[i])]

DecorationHandler_NoModeCheck(h, models, ms) ==
  IF h = NoEditor
  THEN [outcome |-> "TypeError", lint |-> <<>>]
  ELSE IF models[h] = "none"
       THEN [outcome |-> "return", lint |-> <<>>]
       ELSE [outcome |-> "lint", lint |-> <<FormatMarkers(ms)>>]

\* the handler passed to onDidChangeModelDecorations: h is
\* this.state.modifiedEditor, ms what getModelMarkers returns
DecorationHandler(h, models, ms) ==
  IF h = NoEditor
  THEN [outcome |-> "TypeError", lint |-> <<>>]
  ELSE IF models[h] = "none" \/ models[h] # "json"
       THEN [outcome |-> "return", lint |-> <<>>]
       ELSE [outcome |-> "lint", lint |-> <<FormatMarkers(ms)>>]

\* editorDidMount(editor): subscribe the handler, then
\* setState({modifiedEditor: editor.modifiedEditor})
editorDidMount(ed) ==
  /\ nMounts < MaxMounts
  /\ nMounts' = nMounts + 1
  /\ subscribed' = subscribed \cup {ed}
  /\ modifiedEditor' = ed
  /\ UNCHANGED <<timer, timers, now, editorModel, nChanges,
                 lastChange, valueCalls, nDecorations, lastDecoration,
                 nLintCalls, lastLint>>

\* a subscribed editor emits a decoration-change event
DecorationsChanged(ed, ms) ==
  /\ nDecorations < MaxDecorations
  /\ ed \in subscribed
  /\ nDecorations' = nDecorations + 1
  /\ LET r == DecorationHandler(modifiedEditor, editorModel, ms)
     IN /\ lastDecoration' = [emitter |-> ed, model |-> editorModel[ed],
                              handle |-> modifiedEditor, markers |-> ms,
                              outcome |-> r.outcome]
        /\ nLintCalls' = nLintCalls + Len(r.lint)
        /\ lastLint' = IF r.lint = <<>> THEN lastLint ELSE r.lint[1]
  /\ UNCHANGED <<modifiedEditor, timer, timers, now, subscribed,
                 editorModel, nMounts, nChanges, lastChange, valueCalls>>

\* the host changes an editor's model: setModel(null), or another language
SetModel(ed, k) ==
  /\ editorModel[ed] # k
  /\ editorModel' = [editorModel EXCEPT ![ed] = k]
  /\ UNCHANGED <<modifiedEditor, timer, timers, now, subscribed,
                 nMounts, nChanges, lastChange, valueCalls, nDecorations,
                 lastDecoration, nLintCalls, lastLint>>

\* the debounce half: change events, the timer and the clock
DebounceNext ==
  \/ \E v \in Values, c \in ChangeLists : onChange(v, c)
  \/ Fire
  \/ Advance
  \/ \E ed \in Editors : editorDidMount(ed)

\* the lint half: decoration-change events and the editors' models
LintNext ==
  \/ \E ed \in Editors, ms \in MarkerSeqs : DecorationsChanged(ed, ms)
  \/ \E ed \in Editors, k \in ModelKinds : SetModel(ed, k)
  \/ \E ed \in Editors : editorDidMount(ed)

Next == DebounceNext \/ LintNext

Spec == Init /\ [][Next]_vars

\* The two halves share only state.modifiedEditor, which editorDidMount
\* writes and both halves contain.
DebounceSpec == Init /\ [][DebounceNext]_vars

LintSpec == Init /\ [][LintNext]_vars

\* the event loop lets time pass and eventually runs a due timer
FairSpec == DebounceSpec /\ WF_vars(Fire) /\ WF_vars(Advance)

\* ---------------------------------------------------------------------
\* Properties
\* ---------------------------------------------------------------------

\* C1: at most one scheduled, not yet fired, not cancelled timer is
\* outstanding, and it is the one this.timer names: every onChange that
\* schedules a trigger has cancelled the one scheduled before it.
C1_AtMostOnePending ==
  /\ Cardinality(PendingIds(timers)) <= 1
  /\ \A i \in PendingIds(timers) : i = timer /\ i = Len(timers)

C1_Witness ==
  /\ Len(timers) >= 2
  /\ timers[1].status = "cancelled"
  /\ timers[2].status = "pending"
  /\ timers[2].at < timers[1].deadline

\* C2: of qualifying change events less than debounceWait apart only the
\* most recent one fires: each earlier trigger is cancelled without ever
\* firing, and once nothing is pending the last trigger has fired exactly
\* once, not before debounceWait has passed since the last event.
C2_BurstFiresOnce ==
  \A i \in 1..Len(timers) :
    /\ (i < Len(timers) /\ timers[i + 1].at - timers[i].at < debounceWait)
         => (timers[i].fires = 0 /\ timers[i].status = "cancelled")
    /\ (i = Len(timers) /\ PendingIds(timers) = {})
         => (timers[i].fires = 1
             /\ timers[i].firedAt >= timers[i].at + debounceWait)

C2_Witness ==
  /\ Len(timers) = 2
  /\ timers[2].at - timers[1].at = TimeStep
  /\ TimeStep < debounceWait
  /\ timers[1].fires = 0
  /\ timers[2].fires = 1
  /\ timers[2].firedAt = timers[2].at + debounceWait

C3_Safety ==
  \A i \in 1..Len(timers) :
    /\ timers[i].fires <= 1
    /\ timers[i].status = "fired"
         => /\ timers[i].fires = 1
            /\ timers[i].firedAt >= timers[i].at + debounceWait
            /\ i < Len(timers) => timers[i + 1].at >= timers[i].firedAt
    /\ timers[i].status = "cancelled"
         => /\ timers[i].fires = 0
            /\ i < Len(timers)
            /\ timers[i + 1].at >= timers[i].at

C3_Scheduled(i) == i <= Len(timers) /\ timers[i].status = "pending"

C3_Settled(i) ==
  /\ i <= Len(timers)
  /\ \/ timers[i].status = "fired" /\ timers[i].fires = 1
     \/ timers[i].status = "cancelled" /\ i < Len(timers)

\* C3: the trigger a qualifying change event schedules fires exactly once,
\* once debounceWait has passed since the event, unless a later qualifying
\* event supersedes it before it has run; it never fires a second time, and a scheduled trigger eventually
\* either fires or is superseded.
C3_FiresExactlyOnce ==
  /\ []C3_Safety
  /\ \A i \in 1..(MaxChanges + 1) : C3_Scheduled(i) ~> C3_Settled(i)

C3_Witness ==
  /\ Len(timers) = 2
  /\ timers[1].status = "fired"
  /\ timers[1].fires = 1
  /\ timers[1].firedAt > timers[1].at + debounceWait
  /\ timers[2].status = "fired"
  /\ timers[2].fires = 1
  /\ timers[2].firedAt = timers[2].at + debounceWait

\* C4: a trigger scheduled while state.modifiedEditor is still null raises
\* no error, neither in onChange nor later when its timer fires.
C4_UnmountedNeverFatal ==
  \A i \in 1..Len(timers) :
    timers[i].editor = NoEditor => timers[i].outcome # "TypeError"

\* C5: a firing trigger requests suggestions on the handle held in
\* state.modifiedEditor at the moment of the firing.
C5_FiresOnCurrentHandle ==
  \A i \in 1..Len(timers) :
    (timers[i].status = "fired" /\ timers[i].stateAtFire # NoEditor)
      => (timers[i].outcome = "triggered"
          /\ timers[i].target = timers[i].stateAtFire)

\* C6: every onChange call invokes onValueChange exactly once with that
\* call's new text, whatever the insertion list and the previous text.
C6_ForwardsEveryChange ==
  /\ [](valueCalls.n = nChanges)
  /\ [][nChanges' = nChanges + 1
          => /\ valueCalls'.n = valueCalls.n + 1
             /\ valueCalls'.last = lastChange'.value]_vars

C6_Witness ==
  /\ nChanges = 2
  /\ valueCalls.n = 2
  /\ lastChange.previous = lastChange.value
  /\ valueCalls.last = lastChange.value
  /\ lastChange.changes = <<>>
  /\ Len(timers) = 1

\* C7: a change event with an empty insertion list, or whose first insertion
\* is not a trigger character, schedules nothing, completes (it reaches the
\* value callback) and leaves every timer, pending ones included, as it was.
C7_NonQualifyingLeavesTimers ==
  [][(/\ nChanges' = nChanges + 1
      /\ \/ Len(lastChange'.changes) = 0
         \/ lastChange'.changes[1].text \notin triggerCharacters)
       => (/\ timers' = timers
           /\ timer' = timer
           /\ valueCalls'.n = valueCalls.n + 1)]_vars

C7_Witness ==
  /\ lastChange.changes = <<[text |-> "x"], [text |-> ":"]>>
  /\ nChanges = 2
  /\ Len(timers) = 1
  /\ timers[1].status = "pending"
  /\ timers[1].at < now
  /\ timers[1].deadline = timers[1].at + debounceWait

\* C8: on a decoration-change event whose editor has no model or a model
\* that is not json the handler returns without calling onLintError;
\* otherwise it calls onLintError exactly once.
C8_ModelGuard ==
  [][nDecorations' = nDecorations + 1
       => IF lastDecoration'.model # "json"
          THEN /\ nLintCalls' = nLintCalls
               /\ lastLint' = lastLint
               /\ lastDecoration'.outcome = "return"
          ELSE nLintCalls' = nLintCalls + 1]_vars

C8_Witness ==
  /\ nDecorations = 2
  /\ lastDecoration.model = "yaml"
  /\ lastDecoration.handle # NoEditor
  /\ lastDecoration.outcome = "return"
  /\ nLintCalls = 1

\* the formatted strings of the markers explored
C9_Expected(m) ==
  IF m.message = "bad token"
  THEN "Lint error on line 3 columns 5-9: bad token"
  ELSE "Lint error on line 12 columns 1-4: Expected comma"

\* C9: the list handed to onLintError has one string per marker, in marker
\* order, each built from that marker's start line, start column, end column
\* and message; no markers give the empty list.
C9_FormatsInOrder ==
  lastDecoration.outcome = "lint"
    => LET out == lastLint
           ms == lastDecoration.markers
       IN /\ Len(out) = Len(ms)
          /\ \A i \in 1..Len(ms) : out[i] = C9_Expected(ms[i])
          /\ ms = <<>> => out = <<>>

C9_Witness ==
  /\ lastDecoration.outcome = "lint"
  /\ Len(lastDecoration.markers) = 2
  /\ lastDecoration.markers[1].message = "Expected comma"
  /\ nLintCalls > 0
  /\ lastLint
       = << "Lint error on line 12 columns 1-4: Expected comma",
            "Lint error on line 3 columns 5-9: bad token" >>

TypeOK ==
  /\ modifiedEditor \in Editors \cup {NoEditor}
  /\ timer \in 0..Len(timers)
  /\ Len(timers) <= MaxChanges
  /\ valueCalls.n <= MaxChanges
====
